---- MODULE Spec2Model ----
(***************************************************************************)
(* Model of the client-side URL shortener service (UrlShortenerService)    *)
(* and of the validation helpers it calls.  Strings are sequences of       *)
(* one-character strings, instants are milliseconds since the epoch.       *)
(***************************************************************************)
EXTENDS Integers, Sequences, FiniteSets, TLC

VARIABLES
    shortenedUrls,   \* UrlShortenerService.shortenedUrls : the in-memory collection
    usedShortCodes,  \* UrlShortenerService.usedShortCodes : lower-cased reserved codes
    storage,         \* localStorage item 'shortened-urls' : absent, or the serialized collection
    pending,         \* trackClick calls suspended at `await getApproximateLocation()`; each
                     \* holds its object `url` as the object's position in shortenedUrls,
                     \* 0 once the object is no longer in the collection
    now,             \* the wall clock (Date.now()), in ms
    ret,             \* what the last operation was called with and what it returned
    storageFull,     \* localStorage has no room: setItem throws
    page             \* UrlShortenerPage: its state `shortenedUrls`, the array its last
                     \* render captured, and whether its form is shown as loading

vars == <<shortenedUrls, usedShortCodes, storage, pending, now, ret, storageFull, page>>

Null == "null"
\* the number NaN, encoded as an integer no computation of the model produces
NaN == -999999999

-----------------------------------------------------------------------------
(* Bounds of the model *)

MaxUrls == 2        \* records held at once
MaxPending == 2     \* click-tracking tasks in flight at once
MaxClicks == 2      \* clicks recorded and in flight
MaxTicks == 2       \* minutes of the clock
FormMaxUrls == 2    \* records held at once in the form model
QuotaMaxUrls == 2   \* records held at once in the write-failure model
PageMaxUrls == 6    \* records the service is let to hold in the page model
PageMaxTicks == 1   \* minutes of the clock in the page model
RetryMaxUrls == 2   \* records held at once in the retry model
StatsMaxUrls == 1   \* records held at once in the statistics-view model

-----------------------------------------------------------------------------
(* Program constants *)

DEFAULT_VALIDITY_MINUTES == 30
MAX_URLS == 5
SHORT_CODE_LENGTH == 6
MAX_VALIDITY_MINUTES == 10080
MS_PER_MINUTE == 60000
MIN_CODE_LENGTH == 3
MAX_CODE_LENGTH == 10

-----------------------------------------------------------------------------
(* Characters and strings *)

UPPER == << "A","B","C","D","E","F","G","H","I","J","K","L","M",
            "N","O","P","Q","R","S","T","U","V","W","X","Y","Z" >>
LOWER == << "a","b","c","d","e","f","g","h","i","j","k","l","m",
            "n","o","p","q","r","s","t","u","v","w","x","y","z" >>
DIGITS == << "0","1","2","3","4","5","6","7","8","9" >>

Range(s) == { s[i] : i \in DOMAIN s }

UpperChars == Range(UPPER)
LowerChars == Range(LOWER)
DigitChars == Range(DIGITS)

IsUpper(c) == c \in UpperChars
IsLower(c) == c \in LowerChars
IsDigit(c) == c \in DigitChars
IsAlnum(c) == IsUpper(c) \/ IsLower(c) \/ IsDigit(c)
IsSpace(c) == c \in {" ", "\t", "\n"}

IndexOf(s, c) == CHOOSE i \in DOMAIN s : s[i] = c

LowerOf == [ c \in UpperChars |-> LOWER[IndexOf(UPPER, c)] ]

toLowerChar(c) == IF IsUpper(c) THEN LowerOf[c] ELSE c

\* String.prototype.toLowerCase
toLowerCase(s) == [ i \in DOMAIN s |-> toLowerChar(s[i]) ]

\* String.prototype.trim
trim(s) ==
    LET idx == { i \in DOMAIN s : ~IsSpace(s[i]) }
    IN  IF idx = {} THEN << >>
        ELSE LET lo == CHOOSE i \in idx : \A j \in idx : i <= j
                 hi == CHOOSE i \in idx : \A j \in idx : i >= j
             IN  SubSeq(s, lo, hi)

-----------------------------------------------------------------------------
(* Number parsing: the global parseInt(string) with no radix *)

IsHexDigit(c) == IsDigit(c) \/ toLowerChar(c) \in {"a","b","c","d","e","f"}

DigitValue(c) ==
    IF IsDigit(c) THEN IndexOf(DIGITS, c) - 1
    ELSE IndexOf(LOWER, toLowerChar(c)) + 9

\* the string without its leading white space
SkipSpace(s) ==
    LET idx == { i \in DOMAIN s : ~IsSpace(s[i]) }
    IN  IF idx = {} THEN << >>
        ELSE SubSeq(s, CHOOSE i \in idx : \A j \in idx : i <= j, Len(s))

\* the length of the longest prefix of s made of digits of the radix
DigitPrefixLen(s, radix) ==
    LET ok(c) == IF radix = 16 THEN IsHexDigit(c) ELSE IsDigit(c)
        bad == { i \in DOMAIN s : ~ok(s[i]) }
    IN  IF bad = {} THEN Len(s)
        ELSE (CHOOSE i \in bad : \A j \in bad : i <= j) - 1

RECURSIVE DigitsValue(_, _)
DigitsValue(s, radix) ==
    IF s = << >> THEN 0
    ELSE DigitsValue(SubSeq(s, 1, Len(s) - 1), radix) * radix + DigitValue(s[Len(s)])

parseInt(text) ==
    LET s0 == SkipSpace(text)
        signed == s0 # << >> /\ s0[1] \in {"+", "-"}
        sign == IF signed /\ s0[1] = "-" THEN -1 ELSE 1
        s1 == IF signed THEN Tail(s0) ELSE s0
        hex == Len(s1) >= 2 /\ s1[1] = "0" /\ s1[2] \in {"x", "X"}
        radix == IF hex THEN 16 ELSE 10
        s2 == IF hex THEN SubSeq(s1, 3, Len(s1)) ELSE s1
        n == DigitPrefixLen(s2, radix)
    IN  IF n = 0 THEN NaN ELSE sign * DigitsValue(SubSeq(s2, 1, n), radix)

isNaN(x) == x = NaN

-----------------------------------------------------------------------------
(* utils/validation *)

SpecialSchemes == { <<"h","t","t","p">>, <<"h","t","t","p","s">>,
                    <<"f","t","p">>, <<"w","s">>, <<"w","s","s">> }

\* the first position of s at or after `from` holding one of `marks`, or Len(s) + 1
FirstOf(s, from, marks) ==
    LET hits == { i \in DOMAIN s : i >= from /\ s[i] \in marks }
    IN  IF hits = {} THEN Len(s) + 1 ELSE CHOOSE i \in hits : \A j \in hits : i <= j

\* the host of a URL text that has a scheme: what follows the scheme's colon and
\* slashes, up to the path, query or fragment
UrlHost(s) ==
    LET c == FirstOf(s, 1, {":"})
        rest == SubSeq(s, c + 1, Len(s))
        skipped == { i \in DOMAIN rest : rest[i] \notin {"/", "\\"} }
        hostStart == IF skipped = {} THEN Len(rest) + 1
                     ELSE CHOOSE i \in skipped : \A j \in skipped : i <= j
    IN  SubSeq(rest, hostStart, FirstOf(rest, hostStart, {"/", "\\", "?", "#"}) - 1)

\* `new URL(url)` does not throw: the string has a scheme, and a special scheme
\* is followed by a non-empty host without forbidden characters
parsesAsUrl(url) ==
    LET s == trim(url)
        c == FirstOf(s, 1, {":"})
        scheme == toLowerCase(SubSeq(s, 1, c - 1))
    IN  /\ c > 1
        /\ c <= Len(s)
        /\ IsUpper(s[1]) \/ IsLower(s[1])
        /\ \A i \in 1..(c - 1) : IsAlnum(s[i]) \/ s[i] \in {"+", "-", "."}
        /\ scheme \in SpecialSchemes =>
              /\ UrlHost(s) # << >>
              /\ \A i \in DOMAIN UrlHost(s) :
                    ~IsSpace(UrlHost(s)[i]) /\ UrlHost(s)[i] \notin {"<", ">", "^", "|"}

validateUrl(url) == parsesAsUrl(url)

validateShortCode_from2(shortCode) ==
    /\ Len(shortCode) >= MIN_CODE_LENGTH - 1
    /\ Len(shortCode) <= MAX_CODE_LENGTH
    /\ \A i \in DOMAIN shortCode : IsAlnum(shortCode[i])

\* /^[A-Za-z0-9]{3,10}$/.test(shortCode)
validateShortCode(shortCode) ==
    /\ Len(shortCode) >= MIN_CODE_LENGTH
    /\ Len(shortCode) <= MAX_CODE_LENGTH
    /\ \A i \in DOMAIN shortCode : IsAlnum(shortCode[i])

validateValidityPeriod_noMaximum(period) ==
    LET num == parseInt(period)
    IN  ~isNaN(num) /\ num >= 1

validateValidityPeriod(period) ==
    LET num == parseInt(period)
    IN  ~isNaN(num) /\ num >= 1 /\ num <= MAX_VALIDITY_MINUTES

isExpired(expiryDate, clock) == ~isNaN(expiryDate) /\ expiryDate < clock

-----------------------------------------------------------------------------
(* Inputs of the model *)

S_http == <<"h","t","t","p",":","/","/">>
Url1 == S_http \o <<"e">>
Url2 == <<"f","t","p",":","f">>
BadUrl1 == <<"e",".","c">>
BadUrl2 == S_http

Urls == { Url1, BadUrl1, BadUrl2 }

ValidityTexts ==
    { << >>, <<"1">>, <<"1","x">>, <<"1","0","0","8","0">>,
      <<"1","0","0","8","1">>, <<"0">>, <<"x">>, <<"-","1">> }

Code_abc == <<"a","b","c">>
Code_ABC == <<"A","B","C">>
Code_Abc == <<"A","b","c">>
Code_Abc_padded == <<" ","A","b","c"," ">>
Code_len10 == <<"a","1","B","2","c","3","D","4","e","5">>
Code_len11 == Code_len10 \o <<"f">>
Code_len2 == <<"a","b">>
Code_underscore == <<"a","b","_">>
Code_innerSpace == <<"a"," ","c">>
Code_blank == <<" "," ">>

Codes ==
    { << >>, Code_abc, Code_ABC, Code_Abc_padded, Code_len10, Code_len11,
      Code_len2, Code_underscore, Code_innerSpace, Code_blank }

FormData(u, v, c) == [ originalUrl |-> u, validityPeriod |-> v, preferredShortCode |-> c ]

\* the forms submitted in the service model
Requests ==
    { FormData(Url1, <<"1">>, Code_abc), FormData(Url2, << >>, Code_ABC),
      FormData(Url2, << >>, << >>) }

\* the forms submitted in the form model
FormRequests ==
    { FormData(Url1, v, << >>) : v \in ValidityTexts }
    \cup { FormData(Url1, << >>, c) : c \in Codes }
    \cup { FormData(u, v, c) : u \in Urls, v \in { << >>, <<"0">> },
                               c \in { << >>, Code_ABC, Code_len2 } }

\* outcomes of Math.floor(Math.random() * chars.length), one per character
Draw_Q == [ i \in 1..SHORT_CODE_LENGTH |-> 16 ]
Draw_q7 == [ i \in 1..SHORT_CODE_LENGTH |-> IF i % 2 = 1 THEN 42 ELSE 59 ]

RandDraws == { Draw_Q, Draw_q7 }

Code_q == [ i \in 1..SHORT_CODE_LENGTH |-> "q" ]
Code_Q == [ i \in 1..SHORT_CODE_LENGTH |-> "Q" ]

LookupCodes == { Code_Abc, Code_Abc_padded, Code_q }

-----------------------------------------------------------------------------
(* Geolocation resolver *)

Unknown == "Unknown"
UnknownLocation == [ country |-> Unknown, city |-> Unknown, region |-> Unknown ]

\* JavaScript's a || b on values that are strings or undefined
Or(a, b) == IF a \in { Null, "" } THEN b ELSE a

\* How a block of statements ends: with a return, with an exception, or by
\* reaching its end
Returns(value) == [ kind |-> "returns", value |-> value ]
Throws == [ kind |-> "throws", value |-> Null ]
Falls == [ kind |-> "falls", value |-> Null ]

\* How a request ends: fetch rejects ("network_error"), the status is not a
\* success ("http_error"), response.json() rejects ("bad_body"), the body is
\* the JSON null, whose properties cannot be read ("null_body"), or data arrive
RequestOutcomes == { "ok", "network_error", "http_error", "bad_body", "null_body" }

\* the body of a try block around fetch, response.ok, response.json() and a
\* return of what is made of the data
fetched(outcome, value) ==
    CASE outcome = "ok" -> Returns(value)
      [] outcome = "http_error" -> Falls
      [] OTHER -> Throws

catch_rethrows(ending) == ending

\* try { ... } catch (error) { logErrorWithContext(...) }: an exception of the
\* block is taken, and control reaches the end of the statement
catch(ending) == IF ending.kind = "throws" THEN Falls ELSE ending

\* what an async function's promise settles to when the body ends this way and
\* the statement after it returns `last`
settles(ending, last) == IF ending.kind = "falls" THEN Returns(last) ELSE ending

\* reverseGeocode(lat, lng) as a promise, by the outcome of the Nominatim request
reverseGeocodeSettles(env) ==
    LET address == env.revData
        found == [ country |-> Or(address.country, Unknown),
                   city |-> Or(address.city, Or(address.town, Or(address.village, Unknown))),
                   region |-> Or(address.state, Or(address.region, Unknown)) ]
    IN  settles(catch(fetched(env.rev, found)), UnknownLocation)

\* what `await this.reverseGeocode(...)` gives
reverseGeocode(env) == reverseGeocodeSettles(env).value

\* How navigator.geolocation answers: it is not there, it gives a position,
\* permission is denied, or the request times out
GeoOutcomes == { "ok", "unavailable", "denied", "timeout" }

\* getBrowserGeolocation(): the position, or Null; its promise only resolves
getBrowserGeolocation(env) == IF env.geo = "ok" THEN "position" ELSE Null

\* the second try block of getApproximateLocation: an exception of the awaited
\* reverseGeocode is thrown at the await
browserLookup(env) ==
    IF getBrowserGeolocation(env) # Null THEN reverseGeocodeSettles(env) ELSE Falls

\* getApproximateLocation() as a promise, by the outcomes of its network and
\* browser calls: kind "returns" is resolved with the value, "throws" rejected
getApproximateLocationSettles(env) ==
    LET found == [ country |-> Or(env.ipData.country_name, Unknown),
                   city |-> Or(env.ipData.city, Unknown),
                   region |-> Or(env.ipData.region, Unknown) ]
        first == catch(fetched(env.ip, found))
    IN  IF first.kind # "falls" THEN first
        ELSE settles(catch(browserLookup(env)), UnknownLocation)

\* what `await this.getApproximateLocation()` gives
getApproximateLocation(env) == getApproximateLocationSettles(env).value

\* data.address || {} : an address none of whose fields is defined
NoAddress == [ country |-> Null, city |-> Null, town |-> Null, village |-> Null,
               state |-> Null, region |-> Null ]

IpData(country, city, region) == [ country_name |-> country, city |-> city, region |-> region ]

GeoEnv(ip, ipData, geo, rev, revData) ==
    [ ip |-> ip, ipData |-> ipData, geo |-> geo, rev |-> rev, revData |-> revData ]

\* the environments of the resolver model: every outcome of the three calls,
\* with data that have or lack each field
AllGeoEnvs ==
    { GeoEnv(ip, IpData(country, city, "DL"), geo, rev,
             [ NoAddress EXCEPT !.country = country, !.town = town, !.region = "UP" ]) :
        ip \in RequestOutcomes, country \in { Null, "IN" }, city \in { Null, "", "Noida" },
        geo \in GeoOutcomes, rev \in RequestOutcomes, town \in { Null, "Dadri" } }
    \cup { GeoEnv(ip, IpData(Null, Null, Null), geo, rev, NoAddress) :
              ip \in RequestOutcomes, geo \in GeoOutcomes, rev \in RequestOutcomes }

\* the environments the click-tracking tasks of the service model run in
GeoEnvs ==
    { GeoEnv("ok", IpData("IN", Null, "DL"), "denied", "network_error", NoAddress) }

Referrers == { S_http \o <<"R",".","i","o","/","p">> }

\* getClickSource(), by the value of document.referrer
getClickSource(referrer) ==
    IF referrer # << >>
    THEN IF parsesAsUrl(referrer) THEN toLowerCase(UrlHost(trim(referrer)))
         ELSE <<"Unknown referrer">>
    ELSE <<"Direct access">>

UserAgent == "navigator.userAgent"

-----------------------------------------------------------------------------
(* Persistence: JSON.stringify of the collection and its reconstruction *)

\* Date.prototype.toJSON: the ISO text of a valid date, null for an invalid one
DateToJSON(d) == IF d = NaN THEN << >> ELSE <<"ISO-8601", d>>

\* new Date(value) on what JSON.parse gives back
DateFromJSON(j) == IF j = << >> THEN 0 ELSE j[2]

ClickToJSON(c) == [ c EXCEPT !.timestamp = DateToJSON(c.timestamp) ]

\* JSON.stringify of one record: its own fields, the dates as text
UrlToJSON(u) ==
    [ f \in DOMAIN u |->
        CASE f \in { "expiryDate", "createdAt" } -> DateToJSON(u[f])
          [] f = "clicks" -> [ k \in DOMAIN u[f] |-> ClickToJSON(u[f][k]) ]
          [] OTHER -> u[f] ]

stringify(urls) == [ i \in DOMAIN urls |-> UrlToJSON(urls[i]) ]

\* localStorage without the item, and with the item holding a text
NoItem == [ stored |-> FALSE, text |-> << >> ]
Item(text) == [ stored |-> TRUE, text |-> text ]

\* saveToStorage(): the setItem lands, or throws and is swallowed
saveToStorage(urls, old, saveOk) == IF saveOk THEN Item(stringify(urls)) ELSE old

\* n || 0 on a number
numberOr0(n) == IF isNaN(n) THEN 0 ELSE n

\* one element of the urls.map(...) of loadFromStorage: the fields of the
\* parsed object (...url), with the four that the callback sets; a date made
\* from an absent field is invalid
UrlFromJSON(j) ==
    [ f \in DOMAIN j \cup { "expiryDate", "createdAt", "clickCount", "clicks" } |->
        CASE f \in { "expiryDate", "createdAt" } ->
                 IF f \in DOMAIN j THEN DateFromJSON(j[f]) ELSE NaN
          [] f = "clickCount" -> IF f \in DOMAIN j THEN numberOr0(j[f]) ELSE 0
          [] f = "clicks" ->
                 IF f \in DOMAIN j
                 THEN [ k \in DOMAIN j[f] |->
                          [ j[f][k] EXCEPT !.timestamp = DateFromJSON(j[f][k].timestamp) ] ]
                 ELSE << >>
          [] OTHER -> j[f] ]

\* a stored text that JSON.parse rejects, or whose value has no map method
BrokenItem(how) == [ stored |-> TRUE, text |-> << >>, broken |-> how ]
IsBroken(item) == "broken" \in DOMAIN item

\* this.shortenedUrls after loadFromStorage: JSON.parse or urls.map throwing
\* leaves the empty list of the field initialiser
loadedUrls(item) ==
    IF ~item.stored \/ IsBroken(item) THEN << >>
    ELSE [ i \in DOMAIN item.text |-> UrlFromJSON(item.text[i]) ]

\* the records the forEach of loadFromStorage gets through: it stops, by the
\* TypeError of undefined.toLowerCase(), at the first record without shortCode
QuitsAt(urls) ==
    LET bad == { i \in DOMAIN urls : "shortCode" \notin DOMAIN urls[i] }
    IN  IF bad = {} THEN 0 ELSE CHOOSE i \in bad : \A j \in bad : i <= j

\* this.usedShortCodes after loadFromStorage
loadedShortCodes(urls) ==
    LET q == QuitsAt(urls)
        done == IF q = 0 THEN DOMAIN urls ELSE 1..(q - 1)
    IN  { toLowerCase(urls[i].shortCode) : i \in done }

codesOf(urls) == { toLowerCase(urls[i].shortCode) : i \in DOMAIN urls }

-----------------------------------------------------------------------------
(* UrlShortenerService *)

CHARS == UPPER \o LOWER \o DIGITS

\* generateShortCode(), by the random index drawn for each character
generateShortCode(draw) == [ i \in 1..SHORT_CODE_LENGTH |-> CHARS[draw[i] + 1] ]

hasShortCode_caseSensitive(used, shortCode) == shortCode \in used

\* this.usedShortCodes.has(shortCode.toLowerCase())
hasShortCode(used, shortCode) == toLowerCase(shortCode) \in used

addShortCode_asTyped(used, shortCode) == used \cup { shortCode }

\* this.usedShortCodes.add(shortCode.toLowerCase())
addShortCode(used, shortCode) == used \cup { toLowerCase(shortCode) }

\* the validityPeriod createShortUrl computes from the form's text
resolveValidityPeriod(text) ==
    IF text # << >> THEN parseInt(text) ELSE DEFAULT_VALIDITY_MINUTES

\* the rejection createShortUrl issues for the form data, "none" when it issues none
createError(formData, used) ==
    LET shortCode == trim(formData.preferredShortCode)
    IN  IF ~validateUrl(formData.originalUrl) THEN "InvalidUrl"
        ELSE IF formData.validityPeriod # << >>
                /\ ~validateValidityPeriod(formData.validityPeriod)
             THEN "InvalidValidityPeriod"
        ELSE IF shortCode # << >> /\ ~validateShortCode(shortCode) THEN "InvalidShortCode"
        ELSE IF shortCode # << >> /\ hasShortCode(used, shortCode) THEN "ShortCodeTaken"
        ELSE "none"

returnsEarly_notWhenTaken(err) == err \notin { "none", "ShortCodeTaken" }

\* createShortUrl leaves through the `return` that follows each reject
returnsEarly(err) == err # "none"

chosenShortCode_lowered(formData, draw) ==
    LET shortCode == toLowerCase(trim(formData.preferredShortCode))
    IN  IF shortCode # << >> THEN shortCode ELSE generateShortCode(draw)

\* the short code of the new record: the trimmed preferred code, or a generated one
chosenShortCode(formData, draw) ==
    LET shortCode == trim(formData.preferredShortCode)
    IN  IF shortCode # << >> THEN shortCode ELSE generateShortCode(draw)

loopExits_onReserved(formData, used, candidate) ==
    trim(formData.preferredShortCode) # << >> \/ hasShortCode(used, candidate)

\* the do-while of createShortUrl stops at this candidate
loopExits(formData, used, candidate) ==
    trim(formData.preferredShortCode) # << >> \/ ~hasShortCode(used, candidate)

Origin == "window.location.origin"

expiryOf_hours(clock, validityPeriod) ==
    IF isNaN(validityPeriod) THEN NaN ELSE clock + validityPeriod * MS_PER_MINUTE * 60

\* new Date(now.getTime() + validityPeriod * 60000)
expiryOf(clock, validityPeriod) ==
    IF isNaN(validityPeriod) THEN NaN ELSE clock + validityPeriod * MS_PER_MINUTE

\* outcomes of Math.random().toString(36).substr(2, 9), up to renaming: each
\* suffix a record made in this millisecond carries, and one that none carries
RandSuffix(urls, clock) ==
    LET taken == { urls[i].id[2] : i \in { k \in DOMAIN urls : urls[k].id[1] = clock } }
    IN  taken \cup { CHOOSE n \in 1..(Cardinality(taken) + 1) : n \notin taken }

\* the object createShortUrl builds
newShortenedUrl(formData, shortCode, clock, suffix) ==
    [ id |-> <<clock, suffix>>,
      originalUrl |-> formData.originalUrl,
      shortCode |-> shortCode,
      shortUrl |-> <<Origin, "/">> \o shortCode,
      validityPeriod |-> resolveValidityPeriod(formData.validityPeriod),
      expiryDate |-> expiryOf(clock, resolveValidityPeriod(formData.validityPeriod)),
      createdAt |-> clock,
      clickCount |-> 0,
      clicks |-> << >> ]

\* the smallest element of a set of positions, 0 for the empty set
\* (Array.prototype.find returns the first match)
First(hits) == IF hits = {} THEN 0 ELSE CHOOSE i \in hits : \A j \in hits : i <= j

\* this.shortenedUrls.find(url => url.shortCode.toLowerCase() === shortCode.toLowerCase())
findByCode(urls, shortCode) ==
    First({ i \in DOMAIN urls : toLowerCase(urls[i].shortCode) = toLowerCase(shortCode) })

findById_lastWhenMissing(urls, id) ==
    LET hits == { i \in DOMAIN urls : urls[i].id = id }
    IN  IF hits = {} THEN Len(urls) ELSE First(hits)

\* this.shortenedUrls.find(u => u.id === urlId)
findById(urls, id) == First({ i \in DOMAIN urls : urls[i].id = id })

isActive_atExpiry(url, clock) == ~isNaN(url.expiryDate) /\ url.expiryDate >= clock

\* url.expiryDate > new Date()
isActive(url, clock) == ~isNaN(url.expiryDate) /\ url.expiryDate > clock

withClick_staleCount(url, clickData) ==
    [ url EXCEPT !.clicks = Append(url.clicks, clickData) ]

\* what the resumed trackClick does to the object it holds
withClick(url, clickData) ==
    LET clicks == Append(url.clicks, clickData)
    IN  [ url EXCEPT !.clicks = clicks, !.clickCount = Len(clicks) ]

\* the sequence without its k-th element
RemoveAt(seq, k) == SubSeq(seq, 1, k - 1) \o SubSeq(seq, k + 1, Len(seq))

RECURSIVE TotalClicks(_)
TotalClicks(urls) ==
    IF urls = << >> THEN 0 ELSE Len(Head(urls).clicks) + TotalClicks(Tail(urls))

\* clicks recorded on the held records plus the tasks that are to record one
ClicksDue == TotalClicks(shortenedUrls) + Len(pending)

\* whether localStorage.setItem succeeds: it throws while the storage is full
SaveOutcomes == { ~storageFull }

saveThrows_uncaught(saveOk) == ~saveOk

\* whether the caller of saveToStorage() sees an exception: the catch of
\* saveToStorage takes it
saveThrows(saveOk) == FALSE

\* the random suffix of a click's id, which nothing reads
ClickSuffix == { 1 }

-----------------------------------------------------------------------------
(* State machine *)

\* no call is being answered: the event loop is free to run the next handler
Idle == [ op |-> "idle" ]

\* An array as a component holds it: the array the service holds now, whose
\* length is the collection's, or an array the service held once and has
\* replaced since (filter makes a new array), whose length stays what it was
Live == [ live |-> TRUE, length |-> 0 ]
Detached(n) == [ live |-> FALSE, length |-> n ]

\* array.length
lengthOf(array, urls) == IF array.live THEN Len(urls) ELSE array.length

\* what a held array is once the service has assigned a new one
detach(array, urls) == IF array.live THEN Detached(Len(urls)) ELSE array

\* the page is not on screen; useState([]) is where it starts from
NotMounted ==
    [ mounted |-> FALSE, state |-> Detached(0), closure |-> Detached(0), loading |-> FALSE ]

Init ==
    /\ shortenedUrls = << >>
    /\ usedShortCodes = {}
    /\ storage = NoItem
    /\ pending = << >>
    /\ now = 0
    /\ ret = Idle
    /\ storageFull = FALSE
    /\ page = NotMounted

\* createShortUrl(formData) past its checks, which issued the rejection err or
\* "none": the short code is settled, and the record is built, held and stored
createRecord(formData, Draws, cap, err) ==
    \E draw \in Draws, suffix \in RandSuffix(shortenedUrls, now),
       saveOk \in SaveOutcomes :
        LET shortCode == chosenShortCode(formData, draw)
            shortenedUrl == newShortenedUrl(formData, shortCode, now, suffix)
        IN  /\ loopExits(formData, usedShortCodes, shortCode)
            /\ Len(shortenedUrls) < cap
            /\ shortenedUrls' = Append(shortenedUrls, shortenedUrl)
            /\ usedShortCodes' = addShortCode(usedShortCodes, shortCode)
            /\ storage' = saveToStorage(shortenedUrls', storage, saveOk)
            /\ ret' = [ op |-> "create", formData |-> formData,
                        outcome |-> IF saveThrows(saveOk) THEN "Exception"
                                    ELSE IF err = "none" THEN "ok" ELSE err ]
            /\ UNCHANGED <<pending, now, storageFull>>

\* createShortUrl(formData), for the forms of Reqs and the random draws of Draws,
\* while fewer than cap records are held
CreateShortUrl(Reqs, Draws, cap) ==
    \E formData \in Reqs :
        LET err == createError(formData, usedShortCodes)
        IN  IF returnsEarly(err)
            THEN /\ ret' = [ op |-> "create", formData |-> formData, outcome |-> err ]
                 /\ UNCHANGED <<shortenedUrls, usedShortCodes, storage, pending, now, storageFull>>
            ELSE createRecord(formData, Draws, cap, err)

\* the null getOriginalUrl returns, which is no string
NullResult == << Null >>

GetOriginalUrl_recordsBeforeReturn(Lookups) ==
    \E shortCode \in Lookups, trackClick \in BOOLEAN :
        LET i == findByCode(shortenedUrls, shortCode)
            found == i # 0 /\ isActive(shortenedUrls[i], now)
            clickData == [ id |-> <<now, 1>>, timestamp |-> now,
                           source |-> <<"Direct access">>, userAgent |-> UserAgent,
                           location |-> UnknownLocation ]
        IN  /\ ret' = [ op |-> "get", shortCode |-> shortCode, trackClick |-> trackClick,
                        result |-> IF found THEN shortenedUrls[i].originalUrl ELSE NullResult ]
            /\ IF found /\ trackClick
               THEN /\ ClicksDue < MaxClicks
                    /\ shortenedUrls' = [ shortenedUrls EXCEPT ![i] = withClick(@, clickData) ]
                    /\ storage' = saveToStorage(shortenedUrls', storage, TRUE)
               ELSE UNCHANGED <<shortenedUrls, storage>>
            /\ UNCHANGED <<usedShortCodes, pending, now, storageFull>>

\* getOriginalUrl(shortCode, trackClick), up to the first suspension of the
\* trackClick call it starts: trackClick(url.id) finds its object by id and
\* suspends holding it
GetOriginalUrl(Lookups) ==
    \E shortCode \in Lookups, trackClick \in BOOLEAN :
        LET i == findByCode(shortenedUrls, shortCode)
            found == i # 0 /\ isActive(shortenedUrls[i], now)
            j == IF found THEN findById(shortenedUrls, shortenedUrls[i].id) ELSE 0
        IN  /\ ret' = [ op |-> "get", shortCode |-> shortCode, trackClick |-> trackClick,
                        result |-> IF found THEN shortenedUrls[i].originalUrl ELSE NullResult ]
            /\ IF found /\ trackClick /\ j # 0
               THEN /\ Len(pending) < MaxPending
                    /\ ClicksDue < MaxClicks
                    /\ pending' = Append(pending, [ url |-> j, looked |-> i ])
               ELSE UNCHANGED pending
            /\ UNCHANGED <<shortenedUrls, usedShortCodes, storage, now, storageFull>>

\* trackClick(urlId) from the point where getApproximateLocation() has settled
TrackClickResume ==
    \E k \in DOMAIN pending, env \in GeoEnvs, referrer \in Referrers,
       suffix \in ClickSuffix, saveOk \in SaveOutcomes :
        LET clickData == [ id |-> <<now, suffix>>,
                           timestamp |-> now,
                           source |-> getClickSource(referrer),
                           userAgent |-> UserAgent,
                           location |-> getApproximateLocation(env) ]
        IN  /\ shortenedUrls' =
                  [ i \in DOMAIN shortenedUrls |->
                      IF i = pending[k].url
                      THEN withClick(shortenedUrls[i], clickData)
                      ELSE shortenedUrls[i] ]
            /\ storage' = saveToStorage(shortenedUrls', storage, saveOk)
            /\ pending' = RemoveAt(pending, k)
            /\ ret' = [ op |-> "track", url |-> pending[k].url, looked |-> pending[k].looked,
                        threw |-> saveThrows(saveOk) ]
            /\ UNCHANGED <<usedShortCodes, now, storageFull>>

\* where the object at position i is once the records at the positions of
\* `removed` have left the collection
Moved(i, removed) ==
    IF i = 0 \/ i \in removed THEN 0 ELSE i - Cardinality({ r \in removed : r < i })

\* the suspended tasks, still holding their objects
Holding(tasks, removed) ==
    [ k \in DOMAIN tasks |-> [ url |-> Moved(tasks[k].url, removed),
                               looked |-> Moved(tasks[k].looked, removed) ] ]

keptUrls_dropsFirst(urls, clock) ==
    LET kept(u) == isActive(u, clock)
        left == SelectSeq(urls, kept)
    IN  IF left = << >> THEN left ELSE Tail(left)

\* this.shortenedUrls.filter(url => url.expiryDate > now)
keptUrls(urls, clock) ==
    LET kept(u) == isActive(u, clock)
    IN  SelectSeq(urls, kept)

rebuildShortCodes_notCleared(used, urls) == used \cup codesOf(urls)

\* this.usedShortCodes.clear(), then add the lower-cased code of each record
rebuildShortCodes(used, urls) == codesOf(urls)

\* clearExpiredUrls(); inARow tells a call that directly follows another
ClearExpiredUrls ==
    \E saveOk \in SaveOutcomes :
        LET removed == { i \in DOMAIN shortenedUrls : ~isActive(shortenedUrls[i], now) }
        IN  /\ shortenedUrls' = keptUrls(shortenedUrls, now)
            /\ usedShortCodes' = rebuildShortCodes(usedShortCodes, shortenedUrls')
            /\ storage' = saveToStorage(shortenedUrls', storage, saveOk)
            /\ pending' = Holding(pending, removed)
            /\ ret' = [ op |-> "clear",
                        removedCount |-> Len(shortenedUrls) - Len(shortenedUrls'),
                        inARow |-> ret.op = "clear",
                        threw |-> saveThrows(saveOk) ]
            /\ UNCHANGED <<now, storageFull>>

UnknownId == <<0, 0>>

\* deleteUrl(id)
DeleteUrl ==
    \E id \in { shortenedUrls[i].id : i \in DOMAIN shortenedUrls } \cup { UnknownId },
       saveOk \in SaveOutcomes :
        LET i == findById(shortenedUrls, id)
            others(u) == u.id # id
            removed == { k \in DOMAIN shortenedUrls : ~others(shortenedUrls[k]) }
        IN  /\ ret' = [ op |-> "delete", id |-> id,
                        threw |-> i # 0 /\ saveThrows(saveOk) ]
            /\ IF i # 0
               THEN /\ usedShortCodes' = usedShortCodes \ { toLowerCase(shortenedUrls[i].shortCode) }
                    /\ shortenedUrls' = SelectSeq(shortenedUrls, others)
                    /\ storage' = saveToStorage(shortenedUrls', storage, saveOk)
                    /\ pending' = Holding(pending, removed)
               ELSE UNCHANGED <<shortenedUrls, usedShortCodes, storage, pending>>
            /\ UNCHANGED <<now, storageFull>>

\* a page load: the module constructs the service again, and the tasks of the
\* page that went away are gone with it
Construct ==
    /\ shortenedUrls' = loadedUrls(storage)
    /\ usedShortCodes' = loadedShortCodes(shortenedUrls')
    /\ pending' = << >>
    /\ ret' = [ op |-> "construct" ]
    /\ UNCHANGED <<storage, now, storageFull>>

\* the stored object without one of its fields
Without(j, field) == [ f \in DOMAIN j \ { field } |-> j[f] ]

\* what the item can be found to hold when something other than this service
\* has written or removed it: nothing, a text that does not parse, a value
\* that is no list, or the list with a record that has lost its shortCode
DamagedItems(item) ==
    { NoItem, BrokenItem("unparsable"), BrokenItem("not a list") }
    \cup IF item.stored /\ ~IsBroken(item)
         THEN { Item([ item.text EXCEPT ![k] = Without(@, "shortCode") ]) :
                   k \in { i \in DOMAIN item.text : "shortCode" \in DOMAIN item.text[i] } }
         ELSE {}

\* the item is damaged before the page loads again
Corrupt ==
    \E item \in DamagedItems(storage) :
        /\ item # storage
        /\ storage' = item
        /\ ret' = [ op |-> "corrupt" ]
        /\ UNCHANGED <<shortenedUrls, usedShortCodes, pending, now, storageFull>>

\* this.shortenedUrls.filter(url => url.expiryDate > now).length
countActive(urls, clock) == Cardinality({ i \in DOMAIN urls : isActive(urls[i], clock) })

countExpired_before(urls, clock) ==
    Cardinality({ i \in DOMAIN urls :
                    ~isNaN(urls[i].expiryDate) /\ urls[i].expiryDate < clock })

\* this.shortenedUrls.filter(url => url.expiryDate <= now).length
countExpired(urls, clock) ==
    Cardinality({ i \in DOMAIN urls :
                    ~isNaN(urls[i].expiryDate) /\ urls[i].expiryDate <= clock })

\* this.shortenedUrls.reduce((sum, url) => sum + url.clickCount, 0)
RECURSIVE sumClickCount(_, _)
sumClickCount(urls, sum) ==
    IF urls = << >> THEN sum ELSE sumClickCount(Tail(urls), sum + Head(urls).clickCount)

RECURSIVE mostClicked_lastOfTied(_, _)
mostClicked_lastOfTied(urls, max) ==
    IF urls = << >> THEN max
    ELSE LET url == Head(urls)
             best == IF max = << >> THEN 0 ELSE max[1].clickCount
         IN  mostClicked_lastOfTied(Tail(urls),
                                    IF max # << >> /\ url.clickCount >= best
                                    THEN << url >>
                                    ELSE IF url.clickCount > best THEN << url >> ELSE max)

\* the reduce that picks mostClickedUrl; max is << >> for undefined, else
\* the one record picked so far
RECURSIVE mostClicked(_, _)
mostClicked(urls, max) ==
    IF urls = << >> THEN max
    ELSE LET url == Head(urls)
             best == IF max = << >> THEN 0 ELSE max[1].clickCount
         IN  mostClicked(Tail(urls), IF url.clickCount > best THEN << url >> ELSE max)

\* a quotient of two numbers, kept as the two numbers
Quotient(num, den) == [ num |-> num, den |-> den ]

\* the number 0
Zero == Quotient(0, 1)

\* getStatistics()
getStatistics(urls, clock) ==
    LET totalClicks == sumClickCount(urls, 0)
    IN  [ totalUrls |-> Len(urls),
          activeUrls |-> countActive(urls, clock),
          expiredUrls |-> countExpired(urls, clock),
          totalClicks |-> totalClicks,
          averageClicksPerUrl |->
              IF Len(urls) > 0 THEN Quotient(totalClicks, Len(urls)) ELSE Zero,
          mostClickedUrl |-> mostClicked(urls, << >>) ]

\* a call of getStatistics()
GetStatistics ==
    /\ ret' = [ op |-> "stats", stats |-> getStatistics(shortenedUrls, now) ]
    /\ UNCHANGED <<shortenedUrls, usedShortCodes, storage, pending, now, storageFull>>

\* a call of getShortenedUrls()
GetShortenedUrls ==
    /\ ret' = [ op |-> "list", urls |-> shortenedUrls ]
    /\ UNCHANGED <<shortenedUrls, usedShortCodes, storage, pending, now, storageFull>>

\* a minute passes
Tick ==
    /\ now < MaxTicks * MS_PER_MINUTE
    /\ now' = now + MS_PER_MINUTE
    /\ ret' = [ op |-> "tick" ]
    /\ UNCHANGED <<shortenedUrls, usedShortCodes, storage, pending, storageFull>>

Ready == ret = Idle

\* the caller has taken the answer of the call
Return ==
    /\ ~Ready
    /\ ret' = Idle
    /\ UNCHANGED <<shortenedUrls, usedShortCodes, storage, pending, now, storageFull>>

\* The service model: every operation, on a few forms
Next ==
    \/ Ready /\ CreateShortUrl(Requests, { Draw_Q }, MaxUrls) /\ UNCHANGED page
    \/ Ready /\ GetOriginalUrl(LookupCodes) /\ UNCHANGED page
    \/ Ready /\ TrackClickResume /\ UNCHANGED page
    \/ Ready /\ ClearExpiredUrls /\ UNCHANGED page
    \/ ret.op = "clear" /\ ClearExpiredUrls /\ UNCHANGED page
    \/ Ready /\ DeleteUrl /\ UNCHANGED page
    \/ Ready /\ Construct /\ UNCHANGED page
    \/ Ready /\ GetStatistics /\ UNCHANGED page
    \/ Ready /\ Tick /\ UNCHANGED page
    \/ Return /\ UNCHANGED page

Spec == Init /\ [][Next]_vars

\* The form model: createShortUrl on every form, on a store of a few records
NextForm ==
    \/ Ready /\ CreateShortUrl(FormRequests, RandDraws, FormMaxUrls) /\ UNCHANGED page
    \/ Ready /\ DeleteUrl /\ UNCHANGED page
    \/ Return /\ UNCHANGED page

SpecForm == Init /\ [][NextForm]_vars

\* The load model: the stored item is damaged between page loads
NextLoad ==
    \/ Ready /\ CreateShortUrl(Requests, { Draw_Q }, MaxUrls) /\ UNCHANGED page
    \/ Ready /\ Corrupt /\ UNCHANGED page
    \/ Ready /\ Construct /\ UNCHANGED page
    \/ Return /\ UNCHANGED page

SpecLoad == Init /\ [][NextLoad]_vars

\* the forms of the write-failure model
QuotaRequests == { FormData(Url1, <<"1">>, Code_abc), FormData(Url2, << >>, << >>) }

\* a session in a browser whose localStorage takes no writes (setItem
\* throws, as with a full or disabled storage), or takes them
InitQuota ==
    /\ shortenedUrls = << >>
    /\ usedShortCodes = {}
    /\ storage = NoItem
    /\ pending = << >>
    /\ now = 0
    /\ ret = Idle
    /\ storageFull \in BOOLEAN
    /\ page = NotMounted

\* The write-failure model: every operation of a session
NextQuota ==
    \/ Ready /\ CreateShortUrl(QuotaRequests, { Draw_Q }, QuotaMaxUrls) /\ UNCHANGED page
    \/ Ready /\ GetOriginalUrl({ Code_Abc }) /\ UNCHANGED page
    \/ Ready /\ TrackClickResume /\ UNCHANGED page
    \/ Ready /\ ClearExpiredUrls /\ UNCHANGED page
    \/ Ready /\ DeleteUrl /\ UNCHANGED page
    \/ Ready /\ GetStatistics /\ UNCHANGED page
    \/ Ready /\ GetShortenedUrls /\ UNCHANGED page
    \/ Ready /\ Tick /\ UNCHANGED page
    \/ Return /\ UNCHANGED page

SpecQuota == InitQuota /\ [][NextQuota]_vars

-----------------------------------------------------------------------------
(* UrlShortenerPage *)

atCap_above(length) == length > MAX_URLS

\* shortenedUrls.length >= MAX_URLS
atCap(length) == length >= MAX_URLS

\* the draw whose every index is k
Draw_of(k) == [ i \in 1..SHORT_CODE_LENGTH |-> k ]

\* the draws generateShortCode ends its retries with, up to the renaming of
\* codes: the first of a list of draws whose code is not reserved
FreshDraws(used) ==
    LET free == { k \in 0..(PageMaxUrls - 1) :
                    ~hasShortCode(used, generateShortCode(Draw_of(k))) }
    IN  { Draw_of(k) : k \in { f \in free : \A g \in free : f <= g } }

\* the random suffix of the new record's id came out as one that no held
\* record of this millisecond has: the outcome the page model keeps to
FreshId(urls, urlsAfter) == findById(urls, urlsAfter[Len(urlsAfter)].id) = 0

\* the forms submitted in the page model
PageRequests == { FormData(Url1, <<"1">>, << >>) }

\* the page comes on screen: the first render, the effect that calls
\* refreshUrls, and the render of the state it sets; the form is empty until
\* then, so no submit comes in between
Mount ==
    /\ ~page.mounted
    /\ ClearExpiredUrls
    /\ page' = [ mounted |-> TRUE, state |-> Live, closure |-> Live, loading |-> FALSE ]

\* refreshUrls, called by the interval: clearExpiredUrls() assigns a new
\* array, which becomes the state; the handlers of the last render keep the
\* old one until the next render
refreshUrls ==
    /\ page.mounted
    /\ ClearExpiredUrls
    /\ page' = [ page EXCEPT !.state = Live, !.closure = detach(@, shortenedUrls) ]

\* UrlForm.handleSubmit calling handleCreateShortUrl(formData), to the end of
\* both: the form is shown as loading from the submit until the render that
\* follows setLoading(false)
handleCreateShortUrl(Reqs) ==
    /\ page.mounted
    /\ ~page.loading
    /\ IF atCap(lengthOf(page.closure, shortenedUrls))
       THEN /\ \E formData \in Reqs :
                  ret' = [ op |-> "create", formData |-> formData, outcome |-> "MaxUrls" ]
            /\ page' = [ page EXCEPT !.loading = TRUE ]
            /\ UNCHANGED <<shortenedUrls, usedShortCodes, storage, pending, now, storageFull>>
       ELSE /\ CreateShortUrl(Reqs, FreshDraws(usedShortCodes), PageMaxUrls)
            /\ ret'.outcome = "ok" => FreshId(shortenedUrls, shortenedUrls')
            /\ page' = [ page EXCEPT !.loading = TRUE,
                                     !.state = IF ret'.outcome = "ok" THEN Live ELSE @ ]

\* the ids the delete button is pressed for in the page model: that of the
\* oldest record, and one no record has
PageDeleteIds == { shortenedUrls[i].id : i \in DOMAIN shortenedUrls \cap { 1 } } \cup { UnknownId }

\* handleDeleteUrl(id): deleteUrl assigns a new array when it finds the id
handleDeleteUrl ==
    /\ page.mounted
    /\ DeleteUrl
    /\ ret'.id \in PageDeleteIds
    /\ page' = [ page EXCEPT !.state = Live,
                             !.closure = IF findById(shortenedUrls, ret'.id) # 0
                                         THEN detach(@, shortenedUrls) ELSE @ ]

\* React renders the page with the state that was set
Render ==
    /\ page.mounted
    /\ page.closure # page.state \/ page.loading
    /\ page' = [ page EXCEPT !.closure = page.state, !.loading = FALSE ]
    /\ ret' = [ op |-> "render" ]
    /\ UNCHANGED <<shortenedUrls, usedShortCodes, storage, pending, now, storageFull>>

\* the browser loads the application again
Reload ==
    /\ Construct
    /\ page' = NotMounted

\* the forms with a custom code, and the form with none, of the retry model
RetryCustomRequests == { FormData(Url2, << >>, Code_q) }
RetryRequests == { FormData(Url1, <<"1">>, << >>) }

\* the draws of the retry model
RetryDraws == { Draw_Q, Draw_q7, Draw_of(0) }

\* createShortUrl(formData) with no custom code, up to its do-while: the
\* checks have passed.  The model has three candidates where the program has
\* 62^6, so it takes the call only while one of its candidates is free.
EnterLoop ==
    \E formData \in RetryRequests :
        /\ createError(formData, usedShortCodes) = "none"
        /\ Len(shortenedUrls) < RetryMaxUrls
        /\ \E draw \in RetryDraws : ~hasShortCode(usedShortCodes, generateShortCode(draw))
        /\ ret' = [ op |-> "creating", formData |-> formData, retried |-> FALSE ]
        /\ UNCHANGED <<shortenedUrls, usedShortCodes, storage, pending, now, storageFull>>

\* an iteration of the do-while whose candidate makes the loop go round again
LoopAgain ==
    /\ ret.op = "creating"
    /\ \E draw \in RetryDraws :
          ~loopExits(ret.formData, usedShortCodes, generateShortCode(draw))
    /\ ret' = [ ret EXCEPT !.retried = TRUE ]
    /\ UNCHANGED <<shortenedUrls, usedShortCodes, storage, pending, now, storageFull>>

\* the iteration whose candidate ends the do-while, and the rest of createShortUrl
ExitLoop ==
    /\ ret.op = "creating"
    /\ createRecord(ret.formData, RetryDraws, RetryMaxUrls, "none")

\* The retry model: the do-while of createShortUrl, one iteration a step
NextRetry ==
    \/ Ready /\ CreateShortUrl(RetryCustomRequests, { Draw_Q }, RetryMaxUrls) /\ UNCHANGED page
    \/ Ready /\ EnterLoop /\ UNCHANGED page
    \/ LoopAgain /\ UNCHANGED page
    \/ ExitLoop /\ UNCHANGED page
    \/ Ready /\ DeleteUrl /\ UNCHANGED page
    \/ ret.op # "creating" /\ Return /\ UNCHANGED page

\* Math.random() draws each candidate anew, and a free candidate has a
\* positive chance at every draw: the loop does not draw reserved ones for ever
SpecRetry == Init /\ [][NextRetry]_vars /\ WF_vars(ExitLoop /\ UNCHANGED page)

\* getApproximateLocation() is called and settles
Locate ==
    \E env \in AllGeoEnvs :
        /\ ret' = [ op |-> "locate", env |-> env,
                    settled |-> getApproximateLocationSettles(env) ]
        /\ UNCHANGED <<shortenedUrls, usedShortCodes, storage, pending, now, storageFull, page>>

\* The resolver model: the resolver in every environment
NextGeo ==
    \/ Ready /\ Locate
    \/ Return /\ UNCHANGED page

SpecGeo == Init /\ [][NextGeo]_vars

\* The page model: the service as the shortener page drives it
NextPage ==
    \/ Ready /\ Mount
    \/ Ready /\ refreshUrls
    \/ Ready /\ handleCreateShortUrl(PageRequests)
    \/ Ready /\ handleDeleteUrl
    \/ Ready /\ Render
    \/ Ready /\ Reload
    \/ Ready /\ now < PageMaxTicks * MS_PER_MINUTE /\ Tick /\ UNCHANGED page
    \/ Return /\ UNCHANGED page

SpecPage == Init /\ [][NextPage]_vars

\* The statistics view: StatisticsPage takes the collection from
\* getShortenedUrls() and hands each record to a UrlDetailCard

\* Array.prototype.sort with (a, b) => b.timestamp - a.timestamp puts c behind
\* the clicks that are not older than it: the sort is stable
RECURSIVE insertNewestFirst(_, _)
insertNewestFirst(sorted, c) ==
    IF sorted = << >> THEN << c >>
    ELSE IF Head(sorted).timestamp >= c.timestamp
         THEN << Head(sorted) >> \o insertNewestFirst(Tail(sorted), c)
         ELSE << c >> \o sorted

\* url.clicks.sort(...): the array it sorts is the record's own
RECURSIVE sortNewestFirst(_)
sortNewestFirst(clicks) ==
    IF clicks = << >> THEN << >>
    ELSE insertNewestFirst(sortNewestFirst(SubSeq(clicks, 1, Len(clicks) - 1)),
                           clicks[Len(clicks)])

\* the card of a listed record is expanded and renders its click table
UrlDetailCard ==
    /\ ret.op = "list"
    /\ \E i \in DOMAIN ret.urls :
          /\ ret.urls[i].clicks # << >>
          /\ shortenedUrls' =
                [ shortenedUrls EXCEPT ![i].clicks = sortNewestFirst(ret.urls[i].clicks) ]
          /\ ret' = [ op |-> "detail", url |-> i ]
    /\ UNCHANGED <<usedShortCodes, storage, pending, now, storageFull>>

StatsRequests == { FormData(Url1, << >>, Code_abc) }

\* The statistics-view model: lookups of one record, and the view
NextStats ==
    \/ Ready /\ CreateShortUrl(StatsRequests, { Draw_Q }, StatsMaxUrls) /\ UNCHANGED page
    \/ Ready /\ GetOriginalUrl({ Code_Abc }) /\ UNCHANGED page
    \/ Ready /\ TrackClickResume /\ UNCHANGED page
    \/ Ready /\ GetShortenedUrls /\ UNCHANGED page
    \/ UrlDetailCard /\ UNCHANGED page
    \/ Ready /\ Tick /\ UNCHANGED page
    \/ Return /\ UNCHANGED page

SpecStats == Init /\ [][NextStats]_vars

-----------------------------------------------------------------------------
(* Properties *)

Last(seq) == seq[Len(seq)]

\* steps of the operations, told by the call they answer
CreateStep == Ready /\ ret'.op = "create"
GetStep == Ready /\ ret'.op = "get"
TrackStep == Ready /\ ret'.op = "track"

\* the positions of the held records whose short code is `code` up to letter case
Matching(code) ==
    { i \in DOMAIN shortenedUrls :
        toLowerCase(shortenedUrls[i].shortCode) = toLowerCase(code) }

\* the code is 3 to 10 characters, each a letter or a digit
MatchesPattern(code) ==
    /\ Len(code) \in 3..10
    /\ \A i \in DOMAIN code : code[i] \in UpperChars \cup LowerChars \cup DigitChars

\* the form passes the checks made before the short code is looked at
PassesUrlAndValidity(formData) ==
    /\ validateUrl(formData.originalUrl)
    /\ formData.validityPeriod = << >> \/ validateValidityPeriod(formData.validityPeriod)

\* C1: no two held records, expired ones included, have short codes that are
\* equal when lower-cased.
C1_UniqueCodes ==
    \A i, j \in DOMAIN shortenedUrls :
        i # j => toLowerCase(shortenedUrls[i].shortCode) # toLowerCase(shortenedUrls[j].shortCode)

\* two records are held, one of them expired and not purged, and a creation
\* with a code of the same letters has just been turned down
C1_Witness ==
    /\ Len(shortenedUrls) = 2
    /\ \E i \in DOMAIN shortenedUrls : ~isActive(shortenedUrls[i], now)
    /\ ret.op = "create" /\ ret.outcome = "ShortCodeTaken"

\* C2: a creation whose URL and validity text are valid and whose custom code
\* matches ^[A-Za-z0-9]{3,10}$ and is not reserved in lower case succeeds: the new
\* record carries exactly the supplied code, and its lower-cased form is
\* what gets reserved.
C2_CustomCodeKept ==
    [][ ( /\ CreateStep
          /\ PassesUrlAndValidity(ret'.formData)
          /\ MatchesPattern(ret'.formData.preferredShortCode)
          /\ toLowerCase(ret'.formData.preferredShortCode) \notin usedShortCodes )
        => ( /\ ret'.outcome = "ok"
             /\ Len(shortenedUrls') = Len(shortenedUrls) + 1
             /\ SubSeq(shortenedUrls', 1, Len(shortenedUrls)) = shortenedUrls
             /\ Last(shortenedUrls').shortCode = ret'.formData.preferredShortCode
             /\ usedShortCodes' =
                   usedShortCodes \cup { toLowerCase(ret'.formData.preferredShortCode) } )
      ]_vars

\* a code with capitals was accepted next to another reserved code; it is held
\* as typed and reserved in lower case
C2_Witness ==
    /\ ret.op = "create" /\ ret.outcome = "ok"
    /\ ret.formData.preferredShortCode = Code_ABC
    /\ Len(shortenedUrls) = 2
    /\ Last(shortenedUrls).shortCode = Code_ABC
    /\ usedShortCodes = { Code_abc, toLowerCase(shortenedUrls[1].shortCode) }

C4_TakenIgnoringCase ==
    [][ ( /\ CreateStep
          /\ PassesUrlAndValidity(ret'.formData)
          /\ ret'.formData.preferredShortCode # << >>
          /\ Matching(ret'.formData.preferredShortCode) # {} )
        => ret'.outcome = "ShortCodeTaken"
      ]_vars

\* the code of an expired record that is still held was asked for in other
\* letter case, and refused
C4_Witness ==
    /\ ret.op = "create" /\ ret.outcome = "ShortCodeTaken"
    /\ \E i \in Matching(ret.formData.preferredShortCode) :
          /\ shortenedUrls[i].shortCode # ret.formData.preferredShortCode
          /\ ~isActive(shortenedUrls[i], now)

ValidityInRange(n) == n # NaN /\ n >= 1 /\ n <= 10080

\* C5: a creation with an empty validity text makes a record of validity 30;
\* with a non-empty text it fails with InvalidValidityPeriod unless the text
\* parses to an integer of 1..10080, and then the record's validity is that
\* integer; every held record has a validity of 1..10080.
C5_ValidityPeriod ==
    /\ [](\A i \in DOMAIN shortenedUrls : ValidityInRange(shortenedUrls[i].validityPeriod))
    /\ [][ ( CreateStep /\ validateUrl(ret'.formData.originalUrl) )
           => LET text == ret'.formData.validityPeriod
              IN  /\ ( text # << >> /\ ~ValidityInRange(parseInt(text)) )
                        => ( ret'.outcome = "InvalidValidityPeriod"
                             /\ shortenedUrls' = shortenedUrls )
                  /\ ( text = << >> \/ ValidityInRange(parseInt(text)) )
                        => ret'.outcome # "InvalidValidityPeriod"
                  /\ ret'.outcome = "ok"
                        => Last(shortenedUrls').validityPeriod =
                              IF text = << >> THEN 30 ELSE parseInt(text)
         ]_vars

\* a text with a number in front was accepted, and the record has the number
C5_Witness ==
    /\ ret.op = "create" /\ ret.outcome = "ok"
    /\ ret.formData.validityPeriod = <<"1","x">>
    /\ Last(shortenedUrls).validityPeriod = 1

CreateErrors == { "InvalidUrl", "InvalidValidityPeriod", "InvalidShortCode", "ShortCodeTaken" }

\* C6: a creation that fails, with any of the four errors, leaves the
\* collection, the reserved codes and the stored text as they were.
C6_FailedCreateChangesNothing ==
    [][ CreateStep =>
          /\ ret'.outcome \in CreateErrors \cup { "ok" }
          /\ ret'.outcome # "ok" =>
                /\ shortenedUrls' = shortenedUrls
                /\ usedShortCodes' = usedShortCodes
                /\ storage' = storage
      ]_vars

\* a creation was refused for a taken code on a store that holds records and
\* has been written
C6_Witness ==
    /\ ret.op = "create" /\ ret.outcome = "ShortCodeTaken"
    /\ Len(shortenedUrls) = 2
    /\ storage = Item(stringify(shortenedUrls))

\* C7: getOriginalUrl(code) returns the originalUrl of the held record whose
\* code equals code up to letter case when that record expires later than now,
\* and null otherwise.
C7_Lookup ==
    ret.op = "get" =>
        LET live == { i \in Matching(ret.shortCode) : shortenedUrls[i].expiryDate > now }
        IN  /\ \A i \in live : ret.result = shortenedUrls[i].originalUrl
            /\ live = {} => ret.result = NullResult

\* a live record was found under a code typed in other letter case
C7_Witness ==
    /\ ret.op = "get"
    /\ ret.result = Url2
    /\ \E i \in Matching(ret.shortCode) : shortenedUrls[i].shortCode # ret.shortCode

\* C8: a lookup, tracked or not, of the code of a held record made later than
\* the record's creation plus its validity in minutes returns null and records
\* no click: it starts no tracking task and changes no record.
C8_ExpiredLookup ==
    [][ ( /\ GetStep
          /\ \E i \in Matching(ret'.shortCode) :
                now > shortenedUrls[i].createdAt + shortenedUrls[i].validityPeriod * 60000 )
        => ( /\ ret'.result = NullResult
             /\ pending' = pending
             /\ shortenedUrls' = shortenedUrls )
      ]_vars

\* a tracked lookup of a record past its minute returned null
C8_Witness ==
    /\ ret.op = "get" /\ ret.trackClick /\ ret.result = NullResult
    /\ \E i \in Matching(ret.shortCode) :
          /\ shortenedUrls[i].validityPeriod = 1
          /\ now > shortenedUrls[i].createdAt + 60000

\* C9: when the tracking task of a tracked lookup settles, the record the
\* lookup resolved, if still held, has a clickCount higher by exactly 1 and
\* exactly one more entry in clicks.
C9_OneClickPerLookup ==
    [][ ( TrackStep /\ ret'.looked # 0 )
        => LET before == shortenedUrls[ret'.looked]
               after == shortenedUrls'[ret'.looked]
           IN  /\ after.clickCount = before.clickCount + 1
               /\ Len(after.clicks) = Len(before.clicks) + 1
               /\ SubSeq(after.clicks, 1, Len(before.clicks)) = before.clicks
      ]_vars

\* C10: every held record has clickCount = the number of entries of clicks.
C10_CountIsLength ==
    \A i \in DOMAIN shortenedUrls :
        shortenedUrls[i].clickCount = Len(shortenedUrls[i].clicks)

\* a record with two clicks has been loaded again from the stored text
C10_Witness ==
    /\ ret.op = "construct"
    /\ \E i \in DOMAIN shortenedUrls :
          /\ Len(shortenedUrls[i].clicks) = 2
          /\ shortenedUrls[i].clickCount = 2

\* C11: a tracked lookup that returns the destination leaves every record and
\* the stored text as they were and leaves its tracking task in flight; clicks
\* are added only by the later step in which a tracking task resumes.
C11_ReturnsBeforeClick ==
    [][ /\ ( GetStep /\ ret'.trackClick /\ ret'.result # NullResult )
            => ( /\ shortenedUrls' = shortenedUrls
                 /\ storage' = storage
                 /\ Len(pending') = Len(pending) + 1 )
        /\ TotalClicks(shortenedUrls') > TotalClicks(shortenedUrls) => TrackStep
      ]_vars

\* a tracked lookup has returned the destination of a record that has one
\* click from an earlier lookup, and its own click is not recorded yet
C11_Witness ==
    /\ ret.op = "get" /\ ret.trackClick /\ ret.result # NullResult
    /\ Len(pending) = 1
    /\ \E i \in Matching(ret.shortCode) :
          /\ pending[1].looked = i
          /\ Len(shortenedUrls[i].clicks) = 1

\* C12: when two tracked lookups of one live code are in flight together, the
\* task that resumes first, whichever it is, adds exactly one click to that
\* record on top of the clicks it has, and the stored text has them all (the
\* task that resumes second then does the same, by C9).
C12_BothClicksLand ==
    [][ ( /\ TrackStep
          /\ ret'.looked # 0
          /\ \E k \in DOMAIN pending' : pending'[k].looked = ret'.looked )
        => LET before == shortenedUrls[ret'.looked]
               after == shortenedUrls'[ret'.looked]
           IN  /\ Len(after.clicks) = Len(before.clicks) + 1
               /\ SubSeq(after.clicks, 1, Len(before.clicks)) = before.clicks
               /\ after.clickCount = before.clickCount + 1
               /\ storage'.text[ret'.looked].clickCount = after.clickCount
               /\ Len(storage'.text[ret'.looked].clicks) = Len(after.clicks)
      ]_vars

ClearStep == ret'.op = "clear" /\ ret.op \in { "idle", "clear" }
DeleteStep == Ready /\ ret'.op = "delete"

\* a form with a valid URL, no validity text and the given custom code
FormWithCode(code) == FormData(Url1, << >>, code)

\* C13: clearExpiredUrls removes exactly the held records whose expiryDate is
\* not later than now and keeps the others, unchanged and in their order; after
\* it, a creation with the custom code of a removed record is accepted.
C13_SweepRemovesExpired ==
    [][ ClearStep =>
          LET gone == { i \in DOMAIN shortenedUrls : shortenedUrls[i].expiryDate <= now }
              place(i) == i - Cardinality({ g \in gone : g < i })
          IN  /\ Len(shortenedUrls') = Len(shortenedUrls) - Cardinality(gone)
              /\ \A i \in DOMAIN shortenedUrls \ gone :
                    shortenedUrls'[place(i)] = shortenedUrls[i]
              /\ \A i \in gone :
                    /\ toLowerCase(shortenedUrls[i].shortCode) \notin usedShortCodes'
                    /\ createError(FormWithCode(shortenedUrls[i].shortCode), usedShortCodes')
                          = "none"
      ]_vars

\* a sweep has removed one record and kept another
C13_Witness ==
    /\ ret.op = "clear" /\ ret.removedCount = 1
    /\ Len(shortenedUrls) = 1
    /\ Code_abc \notin usedShortCodes

\* C14: a second clearExpiredUrls right after a first leaves the collection,
\* the reserved codes and the stored text as the first left them.
C14_SweepTwice ==
    [][ ( ret.op = "clear" /\ ret'.op = "clear" )
        => ( /\ shortenedUrls' = shortenedUrls
             /\ usedShortCodes' = usedShortCodes
             /\ storage' = storage )
      ]_vars

\* a second sweep in a row has run, at a time when a record has expired and
\* another is live
C14_Witness ==
    /\ ret.op = "clear" /\ ret.inARow
    /\ Len(shortenedUrls) = 1
    /\ now > 0
    /\ storage = Item(stringify(shortenedUrls))

\* C15: deleteUrl with an id that no held record has leaves the collection,
\* the reserved codes and the stored text as they were.
C15_DeleteUnknown ==
    [][ ( DeleteStep /\ \A i \in DOMAIN shortenedUrls : shortenedUrls[i].id # ret'.id )
        => ( /\ shortenedUrls' = shortenedUrls
             /\ usedShortCodes' = usedShortCodes
             /\ storage' = storage )
      ]_vars

\* an unknown id was given to a store of two records
C15_Witness ==
    /\ ret.op = "delete" /\ ret.id = UnknownId
    /\ Len(shortenedUrls) = 2
    /\ storage.stored

\* C16: deleteUrl with the id of a held record removes that record and no
\* other, frees its code for a following creation, and stores the resulting
\* collection.
C16_DeleteHeld ==
    [][ ( DeleteStep /\ \E i \in DOMAIN shortenedUrls : shortenedUrls[i].id = ret'.id )
        => LET gone == CHOOSE i \in DOMAIN shortenedUrls : shortenedUrls[i].id = ret'.id
           IN  /\ Len(shortenedUrls') = Len(shortenedUrls) - 1
               /\ \A i \in DOMAIN shortenedUrls' :
                     shortenedUrls'[i] = shortenedUrls[IF i < gone THEN i ELSE i + 1]
               /\ createError(FormWithCode(shortenedUrls[gone].shortCode), usedShortCodes')
                     = "none"
               /\ storage' = Item(stringify(shortenedUrls'))
      ]_vars

\* C17: a fresh instance constructed from the stored text has the same
\* records in the same order (same id, shortCode, expiryDate, clickCount and
\* clicks) and the same reserved codes as the instance that wrote the text.
C17_RoundTrip ==
    LET fresh == loadedUrls(storage)
    IN  /\ Len(fresh) = Len(shortenedUrls)
        /\ \A i \in DOMAIN shortenedUrls \cap DOMAIN fresh :
              /\ fresh[i].id = shortenedUrls[i].id
              /\ fresh[i].shortCode = shortenedUrls[i].shortCode
              /\ fresh[i].expiryDate = shortenedUrls[i].expiryDate
              /\ fresh[i].clickCount = shortenedUrls[i].clickCount
              /\ fresh[i].clicks = shortenedUrls[i].clicks
        /\ codesOf(fresh) = usedShortCodes

\* the item is missing, does not parse, is no list, or lists a record
\* without shortCode
Damaged(item) ==
    \/ ~item.stored
    \/ IsBroken(item)
    \/ \E i \in DOMAIN item.text : "shortCode" \notin DOMAIN item.text[i]

\* C18: a service constructed while the stored item is missing or corrupted
\* starts with an empty collection and no reserved codes.
C18_FallsBackToEmpty ==
    ( ret.op = "construct" /\ Damaged(storage) )
        => ( shortenedUrls = << >> /\ usedShortCodes = {} )

\* C19: while storage writes fail, createShortUrl, click tracking,
\* clearExpiredUrls and deleteUrl still complete without error and leave their
\* result in the collection and the reserved codes, and getOriginalUrl,
\* getShortenedUrls and getStatistics answer from that in-memory state.
C19_WriteFailureSwallowed ==
    [][ storageFull =>
          /\ storage' = storage
          /\ ( /\ CreateStep
               /\ LET code == ret'.formData.preferredShortCode
                  IN  \/ code = << >>
                      \/ MatchesPattern(code) /\ toLowerCase(code) \notin usedShortCodes )
             => ( /\ ret'.outcome = "ok"
                  /\ Len(shortenedUrls') = Len(shortenedUrls) + 1
                  /\ Last(shortenedUrls').originalUrl = ret'.formData.originalUrl
                  /\ toLowerCase(Last(shortenedUrls').shortCode) \in usedShortCodes' )
          /\ ( TrackStep /\ ret'.url # 0 )
             => ( /\ ~ret'.threw
                  /\ Len(shortenedUrls'[ret'.url].clicks)
                        = Len(shortenedUrls[ret'.url].clicks) + 1 )
          /\ ClearStep
             => ( /\ ~ret'.threw
                  /\ \A i \in DOMAIN shortenedUrls' : shortenedUrls'[i].expiryDate > now
                  /\ Len(shortenedUrls') = Len(shortenedUrls) - ret'.removedCount
                  /\ usedShortCodes' =
                        { toLowerCase(shortenedUrls'[i].shortCode) : i \in DOMAIN shortenedUrls' } )
          /\ ( DeleteStep /\ \E i \in DOMAIN shortenedUrls : shortenedUrls[i].id = ret'.id )
             => ( /\ ~ret'.threw
                  /\ \A i \in DOMAIN shortenedUrls' : shortenedUrls'[i].id # ret'.id
                  /\ Len(shortenedUrls') < Len(shortenedUrls) )
          /\ ( Ready /\ ret'.op = "list" ) => ret'.urls = shortenedUrls
          /\ ( Ready /\ ret'.op = "stats" )
             => ( /\ ret'.stats.totalUrls = Len(shortenedUrls)
                  /\ ret'.stats.totalClicks = TotalClicks(shortenedUrls) )
          /\ GetStep
             => \A i \in Matching(ret'.shortCode) :
                   shortenedUrls[i].expiryDate > now
                      => ret'.result = shortenedUrls[i].originalUrl
      ]_vars

\* nothing was ever stored, and a lookup is answered from a record that has a
\* click recorded
C19_Witness ==
    /\ storageFull /\ storage = NoItem
    /\ ret.op = "get" /\ ret.result = Url1
    /\ \E i \in Matching(ret.shortCode) : shortenedUrls[i].clickCount = 1

RECURSIVE SumOfCounts(_)
SumOfCounts(urls) ==
    IF urls = << >> THEN 0 ELSE SumOfCounts(Tail(urls)) + Head(urls).clickCount

\* C20: getStatistics returns the number of held records, the number whose
\* expiryDate is later than now, the number whose expiryDate is not later than
\* now and the sum of the records' clickCount; on an empty store all four are
\* 0, averageClicksPerUrl is 0 and mostClickedUrl is undefined.
C20_Statistics ==
    ret.op = "stats" =>
        /\ ret.stats.totalUrls = Len(shortenedUrls)
        /\ ret.stats.activeUrls =
              Cardinality({ i \in DOMAIN shortenedUrls : shortenedUrls[i].expiryDate > now })
        /\ ret.stats.expiredUrls =
              Cardinality({ i \in DOMAIN shortenedUrls : ~(shortenedUrls[i].expiryDate > now) })
        /\ ret.stats.totalClicks = SumOfCounts(shortenedUrls)
        /\ shortenedUrls = << >> =>
              /\ ret.stats.totalUrls = 0 /\ ret.stats.activeUrls = 0
              /\ ret.stats.expiredUrls = 0 /\ ret.stats.totalClicks = 0
              /\ ret.stats.averageClicksPerUrl = Quotient(0, 1)
              /\ ret.stats.mostClickedUrl = << >>

\* statistics of a store with a clicked record that expires at this very
\* instant and a record still alive
C20_Witness ==
    /\ ret.op = "stats"
    /\ ret.stats.activeUrls = 1 /\ ret.stats.expiredUrls = 1
    /\ ret.stats.totalClicks = 1
    /\ \E i \in DOMAIN shortenedUrls : shortenedUrls[i].expiryDate = now

\* statistics of the empty store
C20_EmptyWitness == ret.op = "stats" /\ shortenedUrls = << >>

\* C21: with every creation going through handleCreateShortUrl, the store
\* never holds more than 5 records, whatever creations, deletions and sweeps
\* have run; expired records that are still held count.
C21_PageCap == Len(shortenedUrls) <= 5

\* a sixth creation was turned down by the page while the store held five
\* records, one of them expired and not swept
C21_Witness ==
    /\ ret.op = "create" /\ ret.outcome = "MaxUrls"
    /\ Len(shortenedUrls) = 5
    /\ \E i \in DOMAIN shortenedUrls : shortenedUrls[i].expiryDate <= now
    /\ \E i \in DOMAIN shortenedUrls : shortenedUrls[i].expiryDate > now

\* the value a lookup supplies for a field, or "Unknown" when it supplies none
FoundOrUnknown(v) == IF v = Null \/ v = "" THEN "Unknown" ELSE v

\* C22: getApproximateLocation always resolves, whatever the outcomes of the IP
\* lookup, the browser geolocation and the reverse geocoding; each of country,
\* city and region is a found value or "Unknown", and all three are "Unknown"
\* when every step fails.
C22_AlwaysSettles ==
    ret.op = "locate" =>
        LET env == ret.env
            ipFails == env.ip # "ok"
            browserFails == env.geo # "ok" \/ env.rev # "ok"
            address == env.revData
            all == [ country |-> "Unknown", city |-> "Unknown", region |-> "Unknown" ]
        IN  /\ ret.settled.kind = "returns"
            /\ ~ipFails =>
                  ret.settled.value =
                      [ country |-> FoundOrUnknown(env.ipData.country_name),
                        city |-> FoundOrUnknown(env.ipData.city),
                        region |-> FoundOrUnknown(env.ipData.region) ]
            /\ ( ipFails /\ ~browserFails ) =>
                  /\ ret.settled.value.country = FoundOrUnknown(address.country)
                  /\ ret.settled.value.city \in
                        { address.city, address.town, address.village, "Unknown" } \ { Null, "" }
                  /\ ret.settled.value.region \in
                        { address.state, address.region, "Unknown" } \ { Null, "" }
            /\ ( ipFails /\ browserFails ) => ret.settled.value = all

\* the IP lookup's body did not parse, and the browser's position was
\* resolved to a town by the reverse geocoding
C22_Witness ==
    /\ ret.op = "locate"
    /\ ret.env.ip = "bad_body" /\ ret.env.geo = "ok" /\ ret.env.rev = "ok"
    /\ ret.settled.kind = "returns"
    /\ ret.settled.value.city = "Dadri"

\* every step failed, each in a way that throws
C22_AllFailWitness ==
    /\ ret.op = "locate"
    /\ ret.env.ip = "network_error" /\ ret.env.geo = "ok" /\ ret.env.rev = "null_body"
    /\ ret.settled = [ kind |-> "returns",
                       value |-> [ country |-> "Unknown", city |-> "Unknown",
                                   region |-> "Unknown" ] ]

\* C23: a createShortUrl with a valid URL and no custom code that has entered
\* its retry loop leaves it and resolves with a record; the record's short
\* code has 6 characters, each a letter or a digit, and its lower-cased form
\* was not reserved before the call.
C23_RetryLoopEnds ==
    /\ ( ret.op = "creating" ) ~> ( ret.op = "create" /\ ret.outcome = "ok" )
    /\ [][ ret.op = "creating" /\ ret'.op # "creating" =>
             /\ ret'.op = "create" /\ ret'.outcome = "ok"
             /\ shortenedUrls' = Append(shortenedUrls, Last(shortenedUrls'))
             /\ Last(shortenedUrls').originalUrl = ret.formData.originalUrl
             /\ Len(Last(shortenedUrls').shortCode) = 6
             /\ \A i \in 1..6 : Last(shortenedUrls').shortCode[i]
                                  \in UpperChars \cup LowerChars \cup DigitChars
             /\ toLowerCase(Last(shortenedUrls').shortCode) \notin usedShortCodes
             /\ toLowerCase(Last(shortenedUrls').shortCode) \in usedShortCodes'
       ]_vars

\* a creation with no custom code has resolved with a generated code while
\* the lower-cased form of another candidate is reserved by a custom code
C23_Witness ==
    /\ ret.op = "create" /\ ret.outcome = "ok"
    /\ ret.formData.preferredShortCode = << >>
    /\ Len(shortenedUrls) = 2
    /\ shortenedUrls[1].shortCode = Code_q
    /\ Last(shortenedUrls).shortCode # Code_Q

\* the loop has drawn a reserved candidate and gone round again
C23_RetriedWitness == ret.op = "creating" /\ ret.retried /\ Len(shortenedUrls) = 1

\* C24: no two held records have the same id.
C24_UniqueIds ==
    \A i, j \in DOMAIN shortenedUrls : i # j => shortenedUrls[i].id # shortenedUrls[j].id

\* the fields of a record that are set when it is made
FixedFields ==
    { "id", "originalUrl", "shortCode", "shortUrl", "validityPeriod", "createdAt", "expiryDate" }

Fixed(url) == [ f \in FixedFields |-> url[f] ]

\* the records at the positions of keep, in their order
RECURSIVE Keeping(_, _, _)
Keeping(urls, keep, i) ==
    IF i > Len(urls) THEN << >>
    ELSE (IF i \in keep THEN << urls[i] >> ELSE << >>) \o Keeping(urls, keep, i + 1)

\* the records of old are those new starts with, field by field, but for the
\* clicks and clickCount of the one at position `at`
SameBut(old, new, at) ==
    /\ Len(old) <= Len(new)
    /\ Len(new) <= Len(old) + 1
    /\ \A i \in DOMAIN old :
           IF i = at THEN Fixed(old[i]) = Fixed(new[i]) ELSE old[i] = new[i]

\* C25: every held record expires validityPeriod minutes after its creation,
\* and every step leaves each record that stays held as it was, field by field,
\* except that a resumed tracking task changes clicks and clickCount, and
\* nothing else, of the record that was clicked, the one the lookup found; a
\* step adds at most one record.
C25_FieldsFixed ==
    /\ [](\A i \in DOMAIN shortenedUrls :
              shortenedUrls[i].expiryDate
                  = shortenedUrls[i].createdAt + shortenedUrls[i].validityPeriod * 60000)
    /\ [][ \E keep \in SUBSET DOMAIN shortenedUrls :
               SameBut(Keeping(shortenedUrls, keep, 1), shortenedUrls',
                       IF TrackStep /\ keep = DOMAIN shortenedUrls THEN ret'.looked ELSE 0)
         ]_vars

\* C26: mostClickedUrl of getStatistics is undefined when no held record has a
\* clickCount above 0 (the empty store included); otherwise it is the first,
\* in the collection's order, of the records with the highest clickCount.
C26_MostClicked ==
    ret.op = "stats" =>
        LET count(i) == shortenedUrls[i].clickCount
            highest(i) == \A j \in DOMAIN shortenedUrls : count(j) <= count(i)
        IN  IF \A i \in DOMAIN shortenedUrls : count(i) = 0
            THEN ret.stats.mostClickedUrl = << >>
            ELSE \E i \in DOMAIN shortenedUrls :
                    /\ highest(i)
                    /\ \A j \in 1..(i - 1) : ~highest(j)
                    /\ ret.stats.mostClickedUrl = << shortenedUrls[i] >>

\* statistics of two records with one click each
C26_Witness ==
    /\ ret.op = "stats"
    /\ Len(shortenedUrls) = 2
    /\ shortenedUrls[1].clickCount = 1
    /\ shortenedUrls[2].clickCount = 1
    /\ ret.stats.mostClickedUrl = << shortenedUrls[1] >>

\* statistics of two records without clicks, and of two where the second has more
C26_NoClicksWitness ==
    /\ ret.op = "stats"
    /\ Len(shortenedUrls) = 2
    /\ ret.stats.mostClickedUrl = << >>

C26_SecondWitness ==
    /\ ret.op = "stats"
    /\ Len(shortenedUrls) = 2
    /\ shortenedUrls[1].clickCount = 0
    /\ ret.stats.mostClickedUrl = << shortenedUrls[2] >>

\* C27: when the record a lookup found has been removed by deleteUrl or
\* clearExpiredUrls before the tracking task of that lookup resumes, the
\* resumption leaves the collection and the reserved-code index as they are
\* and the stored text that of the held records: the removed record returns
\* nowhere and no held record gets a click, whatever codes the held records have.
C27_RemovedTargetNoOp ==
    [][ (TrackStep /\ ret'.looked = 0) =>
            /\ shortenedUrls' = shortenedUrls
            /\ usedShortCodes' = usedShortCodes
            /\ storage' = storage
            /\ storage' = Item(stringify(shortenedUrls))
      ]_vars

StatsStep == Ready /\ ret'.op = "stats"

\* C28: at every current time, getOriginalUrl answers null for a held record,
\* getStatistics counts it as expired and clearExpiredUrls removes it exactly
\* when isExpired(expiryDate) is true of it.
C28_SameBoundary ==
    [][ LET expired(url) == isExpired(url.expiryDate, now)
            alive(url) == ~expired(url)
        IN  /\ GetStep =>
                  LET i == findByCode(shortenedUrls, ret'.shortCode)
                  IN  i # 0 => (ret'.result = NullResult <=> expired(shortenedUrls[i]))
            /\ StatsStep =>
                  ret'.stats.expiredUrls
                      = Cardinality({ i \in DOMAIN shortenedUrls : expired(shortenedUrls[i]) })
            /\ ClearStep => shortenedUrls' = SelectSeq(shortenedUrls, alive)
      ]_vars

\* C29: in every step each held record's clicks stay as they were or get one
\* click added at the end, the rendering of the click table by the statistics
\* view included.
C29_AppendOnly ==
    [][ \A i \in DOMAIN shortenedUrls :
            /\ i \in DOMAIN shortenedUrls'
            /\ LET before == shortenedUrls[i].clicks
                   after == shortenedUrls'[i].clicks
               IN  \/ after = before
                   \/ \E c \in { after[k] : k \in DOMAIN after } : after = Append(before, c)
      ]_vars

\* C30: when construction, createShortUrl (settled either way), a tracking
\* task, clearExpiredUrls or deleteUrl has completed, the reserved-code index
\* is the set of the lower-cased short codes of the held records.
C30_IndexIsHeldCodes ==
    ret.op \in { "construct", "create", "track", "clear", "delete" } =>
        usedShortCodes = { toLowerCase(shortenedUrls[i].shortCode) : i \in DOMAIN shortenedUrls }

====
